---- MODULE Spec2Model ----
(***************************************************************************)
(* The block producer of the validator client                             *)
(* (eth2/block_producer/src/lib.rs): BlockProducer::poll and the          *)
(* production path it calls, as a state machine.                          *)
(*                                                                         *)
(* BlockProducer<T, U, V, W> is generic over its four collaborators       *)
(* (SlotClock, BeaconNode, DutiesReader, Signer).  What a collaborator    *)
(* answers to a call is an input of the step that makes the call.  The    *)
(* duties source is shared with the duties manager thread                 *)
(* (validator_client/src/main.rs), so what it reports for the slot being  *)
(* polled is a variable that the manager may change between any two       *)
(* steps of a poll.                                                        *)
(*                                                                         *)
(* Spec        the producer with arbitrary collaborators.                 *)
(* SpecPolling the producer driven by the test tests::polling and its     *)
(*             test doubles.                                               *)
(***************************************************************************)
EXTENDS Integers, Sequences, FiniteSets, TLC

(* Bounds of the model. *)
MaxSlot == 5
MaxEpochLength == 3

Slots == 0..MaxSlot

VARIABLES
    last_processed_slot,  \* BlockProducer.last_processed_slot
    epoch_length,         \* BlockProducer.spec.epoch_length (immutable)
    duties,               \* what the duties source reports for the polled slot
    pc,                   \* where the poll in progress is ("idle": none)
    slot,                 \* poll's local `slot`: the slot most recently read
    block,                \* the candidate block of the production in progress
    outcome,              \* what the last completed poll returned
    calls,                \* history: <<call, answer>> of each collaborator
                          \* call of the current poll, in order
    requested,            \* history: slots produce_beacon_block was asked for
    monotone,             \* history: no clock reading was below an earlier one
    highest,              \* history: the highest slot a poll has read
    harness               \* state of the test tests::polling (SpecPolling)

vars == <<last_processed_slot, epoch_length, duties, pc, slot, block, outcome,
          calls, requested, monotone, highest, harness>>

--------------------------------------------------------------------------
(* Values. *)

\* enum PollOutcome, each carrying the slot it applies to.
PollOutcome ==
    {"BlockProduced", "SlashableBlockNotProduced", "BlockProductionNotRequired",
     "ProducerDutiesUnknown", "SlotAlreadyProcessed",
     "BeaconNodeUnableToProduceBlock", "SignerRejection"}

\* enum Error.
Error ==
    {"SlotClockError", "SlotUnknowable", "EpochMapPoisoned", "SlotClockPoisoned",
     "EpochLengthIsZero", "BeaconNodeError"}

\* enum BeaconNodeError, the error of the beacon node collaborator.
BeaconNodeError == {"RemoteFailure", "DecodeFailure"}

Ok(tag, s) == [ok |-> TRUE, tag |-> tag, slot |-> s]
Err(tag) == [ok |-> FALSE, tag |-> tag]

\* Mutant of FromBeaconNodeError: every error is reported as a remote failure.
FromBeaconNodeError_Collapsed(e) ==
    [ok |-> FALSE, tag |-> "BeaconNodeError", error |-> "RemoteFailure"]

\* impl From<BeaconNodeError> for Error: the error is wrapped as it is.
FromBeaconNodeError(e) == [ok |-> FALSE, tag |-> "BeaconNodeError", error |-> e]

\* No poll has returned yet.
NotPolled == [ok |-> FALSE, tag |-> "NotPolled"]

\* What slot_clock.read() and present_slot() can yield: a poisoned lock, a
\* clock fault (Err), an unknown slot (Ok(None)) or a slot (Ok(Some(slot))).
ClockReadings ==
    {[kind |-> "Poisoned"], [kind |-> "ClockFault"], [kind |-> "None"]}
    \cup {[kind |-> "Some", slot |-> s] : s \in Slots}

\* What is_block_production_slot(epoch, slot) can yield.
DutiesAnswers == {"True", "False", "UnknownEpoch", "Poisoned"}

\* BeaconBlock: the slot and the signature are the fields the producer reads
\* or writes.  "empty" is spec.empty_signature.
Signatures == {"empty", "sigA", "sigB"}
BeaconBlock == [slot : Slots, signature : Signatures]
NoBlock == [slot |-> 0, signature |-> "none"]

\* What produce_beacon_block(slot) can yield.
ProduceResults ==
    {[kind |-> "Err", error |-> e] : e \in BeaconNodeError}
    \cup {[kind |-> "None"]}
    \cup {[kind |-> "Some", block |-> b] : b \in BeaconBlock}

\* What bls_sign(root) can yield: None, or a signature.
SignResults == {"None"} \cup (Signatures \ {"empty"})

\* What publish_beacon_block(block) can yield.
PublishResults ==
    {[kind |-> "Err", error |-> e] : e \in BeaconNodeError}
    \cup {[kind |-> "Ok", flag |-> f] : f \in BOOLEAN}

--------------------------------------------------------------------------
(* Pure functions. *)

\* slot.checked_div(epoch_length), defined when epoch_length # 0.
Epoch(s, len) == s \div len

\* BlockProducer::safe_to_produce: stubbed out, always true.
safe_to_produce(b) == TRUE

\* hash_tree_root: stubbed out, Hash256::zero().
hash_tree_root(input) == 0

\* The proposal root sign_block hands to the signer.
proposal_root(b) ==
    LET block_without_signature == [b EXCEPT !.signature = "empty"]
        block_without_signature_root == hash_tree_root(block_without_signature)
        proposal == [slot |-> b.slot, shard |-> 0,
                     block_root |-> block_without_signature_root]
    IN  hash_tree_root(proposal)

--------------------------------------------------------------------------
(* The producer. *)

\* BlockProducer::new
New ==
    /\ last_processed_slot = 0
    /\ pc = "idle"
    /\ slot = 0
    /\ block = NoBlock
    /\ outcome = NotPolled
    /\ calls = <<>>
    /\ requested = <<>>
    /\ monotone = TRUE
    /\ highest = 0

\* poll returns o.
Return(o) ==
    /\ pc' = "idle"
    /\ outcome' = o
    /\ block' = NoBlock

\* Mutants of IsNewSlot: every slot is taken as new; the slot already
\* processed is taken as new.
IsNewSlot_Always(s) == TRUE
IsNewSlot_Inclusive(s) == s >= last_processed_slot

\* `if slot > self.last_processed_slot`: the slot is a new slot.
IsNewSlot(s) == s > last_processed_slot

\* Mutant of PollReadClock: an unknown slot is reported as a clock fault.
PollReadClock_UnknownAsError(reading) ==
    /\ pc = "idle"
    /\ calls' = << <<"slot_clock", reading.kind>> >>
    /\ UNCHANGED <<last_processed_slot, epoch_length, duties, requested>>
    /\ IF reading.kind = "Poisoned" THEN
           Return(Err("SlotClockPoisoned")) /\ UNCHANGED <<slot, monotone, highest>>
       ELSE IF reading.kind \in {"ClockFault", "None"} THEN
           Return(Err("SlotClockError")) /\ UNCHANGED <<slot, monotone, highest>>
       ELSE
           /\ slot' = reading.slot
           /\ monotone' = (monotone /\ reading.slot >= slot)
           /\ highest' = IF reading.slot > highest THEN reading.slot ELSE highest
           /\ IF epoch_length = 0 THEN
                  Return(Err("EpochLengthIsZero"))
              ELSE IF IsNewSlot(reading.slot) THEN
                  pc' = "duties" /\ UNCHANGED <<outcome, block>>
              ELSE
                  Return(Ok("SlotAlreadyProcessed", reading.slot))

\* Mutant of PollReadClock: the slot is compared with last_processed_slot
\* before the epoch is computed.
PollReadClock_CompareFirst(reading) ==
    /\ pc = "idle"
    /\ calls' = << <<"slot_clock", reading.kind>> >>
    /\ UNCHANGED <<last_processed_slot, epoch_length, duties, requested>>
    /\ IF reading.kind = "Poisoned" THEN
           Return(Err("SlotClockPoisoned")) /\ UNCHANGED <<slot, monotone, highest>>
       ELSE IF reading.kind = "ClockFault" THEN
           Return(Err("SlotClockError")) /\ UNCHANGED <<slot, monotone, highest>>
       ELSE IF reading.kind = "None" THEN
           Return(Err("SlotUnknowable")) /\ UNCHANGED <<slot, monotone, highest>>
       ELSE
           /\ slot' = reading.slot
           /\ monotone' = (monotone /\ reading.slot >= slot)
           /\ highest' = IF reading.slot > highest THEN reading.slot ELSE highest
           /\ IF ~IsNewSlot(reading.slot) THEN
                  Return(Ok("SlotAlreadyProcessed", reading.slot))
              ELSE IF epoch_length = 0 THEN
                  Return(Err("EpochLengthIsZero"))
              ELSE
                  pc' = "duties" /\ UNCHANGED <<outcome, block>>

\* poll, up to the comparison with last_processed_slot: reads the clock,
\* computes the epoch, and skips a slot that is not new.
PollReadClock(reading) ==
    /\ pc = "idle"
    /\ calls' = << <<"slot_clock", reading.kind>> >>
    /\ UNCHANGED <<last_processed_slot, epoch_length, duties, requested>>
    /\ IF reading.kind = "Poisoned" THEN
           Return(Err("SlotClockPoisoned")) /\ UNCHANGED <<slot, monotone, highest>>
       ELSE IF reading.kind = "ClockFault" THEN
           Return(Err("SlotClockError")) /\ UNCHANGED <<slot, monotone, highest>>
       ELSE IF reading.kind = "None" THEN
           Return(Err("SlotUnknowable")) /\ UNCHANGED <<slot, monotone, highest>>
       ELSE
           /\ slot' = reading.slot
           /\ monotone' = (monotone /\ reading.slot >= slot)
           /\ highest' = IF reading.slot > highest THEN reading.slot ELSE highest
           /\ IF epoch_length = 0 THEN
                  Return(Err("EpochLengthIsZero"))
              ELSE IF IsNewSlot(reading.slot) THEN
                  pc' = "duties" /\ UNCHANGED <<outcome, block>>
              ELSE
                  Return(Ok("SlotAlreadyProcessed", reading.slot))

\* Mutant of PollDuties: last_processed_slot is advanced whatever the duties
\* source answers.
PollDuties_AdvanceAlways ==
    /\ pc = "duties"
    /\ calls' = Append(calls, <<"is_block_production_slot", duties>>)
    /\ UNCHANGED <<epoch_length, duties, slot, requested, monotone, highest>>
    /\ last_processed_slot' = slot
    /\ IF duties = "UnknownEpoch" THEN
           Return(Ok("ProducerDutiesUnknown", slot))
       ELSE IF duties = "Poisoned" THEN
           Return(Err("EpochMapPoisoned"))
       ELSE IF duties = "True" THEN
           /\ pc' = "produce"
           /\ UNCHANGED <<outcome, block>>
       ELSE
           Return(Ok("BlockProductionNotRequired", slot))

\* Mutant of PollDuties: last_processed_slot is not advanced before production.
PollDuties_NoAdvance ==
    /\ pc = "duties"
    /\ calls' = Append(calls, <<"is_block_production_slot", duties>>)
    /\ UNCHANGED <<epoch_length, duties, slot, requested, monotone, highest,
                   last_processed_slot>>
    /\ IF duties = "UnknownEpoch" THEN
           Return(Ok("ProducerDutiesUnknown", slot))
       ELSE IF duties = "Poisoned" THEN
           Return(Err("EpochMapPoisoned"))
       ELSE IF duties = "True" THEN
           /\ pc' = "produce"
           /\ UNCHANGED <<outcome, block>>
       ELSE
           Return(Ok("BlockProductionNotRequired", slot))

\* Mutant of PollDuties: an unknown epoch is taken as "no production required".
PollDuties_UnknownAsFalse ==
    /\ pc = "duties"
    /\ calls' = Append(calls, <<"is_block_production_slot", duties>>)
    /\ UNCHANGED <<epoch_length, duties, slot, requested, monotone, highest>>
    /\ IF duties = "Poisoned" THEN
           Return(Err("EpochMapPoisoned")) /\ UNCHANGED last_processed_slot
       ELSE IF duties = "True" THEN
           /\ last_processed_slot' = slot
           /\ pc' = "produce"
           /\ UNCHANGED <<outcome, block>>
       ELSE
           Return(Ok("BlockProductionNotRequired", slot)) /\ UNCHANGED last_processed_slot

\* Mutant of PollDuties: a poisoned duties source is reported as an unknown
\* epoch.
PollDuties_PoisonedAsUnknown ==
    /\ pc = "duties"
    /\ calls' = Append(calls, <<"is_block_production_slot", duties>>)
    /\ UNCHANGED <<epoch_length, duties, slot, requested, monotone, highest>>
    /\ IF duties \in {"UnknownEpoch", "Poisoned"} THEN
           Return(Ok("ProducerDutiesUnknown", slot)) /\ UNCHANGED last_processed_slot
       ELSE IF duties = "True" THEN
           /\ last_processed_slot' = slot
           /\ pc' = "produce"
           /\ UNCHANGED <<outcome, block>>
       ELSE
           Return(Ok("BlockProductionNotRequired", slot)) /\ UNCHANGED last_processed_slot

\* poll, for a new slot: asks the duties source and, when production is
\* required, advances last_processed_slot and goes on to produce_block.
PollDuties ==
    /\ pc = "duties"
    /\ calls' = Append(calls, <<"is_block_production_slot", duties>>)
    /\ UNCHANGED <<epoch_length, duties, slot, requested, monotone, highest>>
    /\ IF duties = "UnknownEpoch" THEN
           Return(Ok("ProducerDutiesUnknown", slot)) /\ UNCHANGED last_processed_slot
       ELSE IF duties = "Poisoned" THEN
           Return(Err("EpochMapPoisoned")) /\ UNCHANGED last_processed_slot
       ELSE IF duties = "True" THEN
           /\ last_processed_slot' = slot
           /\ pc' = "produce"
           /\ UNCHANGED <<outcome, block>>
       ELSE
           Return(Ok("BlockProductionNotRequired", slot)) /\ UNCHANGED last_processed_slot

\* produce_block, up to the safety predicate: requests a candidate for the
\* slot and judges it.
ProduceBlock(result) ==
    /\ pc = "produce"
    /\ requested' = Append(requested, slot)
    /\ UNCHANGED <<last_processed_slot, epoch_length, duties, slot, monotone, highest>>
    /\ IF result.kind = "Err" THEN
           /\ calls' = Append(calls, <<"produce_beacon_block", "Err">>)
           /\ Return(FromBeaconNodeError(result.error))
       ELSE IF result.kind = "None" THEN
           /\ calls' = Append(calls, <<"produce_beacon_block", "None">>)
           /\ Return(Ok("BeaconNodeUnableToProduceBlock", slot))
       ELSE IF safe_to_produce(result.block) THEN
           /\ calls' = calls \o << <<"produce_beacon_block", "Some">>,
                                   <<"safe_to_produce", "true">> >>
           /\ pc' = "sign"
           /\ block' = result.block
           /\ UNCHANGED outcome
       ELSE
           /\ calls' = calls \o << <<"produce_beacon_block", "Some">>,
                                   <<"safe_to_produce", "false">> >>
           /\ Return(Ok("SlashableBlockNotProduced", slot))

\* Mutant of IsSigned: a declined signature is taken as a signature.
IsSigned_Always(signed) == TRUE

\* `match self.signer.bls_sign(..)`: Some(signature), not None.
IsSigned(signed) == signed # "None"

\* Mutant of SignBlock: the production is recorded once a signature was
\* obtained.
SignBlock_RecordWhenSigned(signed) ==
    /\ pc = "sign"
    /\ UNCHANGED <<last_processed_slot, epoch_length, duties, slot, requested,
                   monotone, highest>>
    /\ IF IsSigned(signed) THEN
           /\ calls' = calls \o << <<"proposal_root", proposal_root(block)>>,
                                   <<"bls_sign", "Some">>,
                                   <<"store_produce", "()">> >>
           /\ block' = [block EXCEPT !.signature = signed]
           /\ pc' = "publish"
           /\ UNCHANGED outcome
       ELSE
           /\ calls' = calls \o << <<"proposal_root", proposal_root(block)>>,
                                   <<"bls_sign", "None">> >>
           /\ Return(Ok("SignerRejection", slot))

\* Mutant of SignBlock: the signature is not attached to the block.
SignBlock_NoAttach(signed) ==
    /\ pc = "sign"
    /\ calls' = calls \o << <<"store_produce", "()">>,
                            <<"proposal_root", proposal_root(block)>>,
                            <<"bls_sign", IF signed = "None" THEN "None" ELSE "Some">> >>
    /\ UNCHANGED <<last_processed_slot, epoch_length, duties, slot, requested,
                   monotone, highest>>
    /\ IF IsSigned(signed) THEN
           /\ block' = block
           /\ pc' = "publish"
           /\ UNCHANGED outcome
       ELSE
           Return(Ok("SignerRejection", slot))

\* sign_block: records the production, computes the proposal root and asks
\* the signer for a signature over it ("proposal_root" in the log is the root
\* handed to bls_sign).
SignBlock(signed) ==
    /\ pc = "sign"
    /\ calls' = calls \o << <<"store_produce", "()">>,
                            <<"proposal_root", proposal_root(block)>>,
                            <<"bls_sign", IF signed = "None" THEN "None" ELSE "Some">> >>
    /\ UNCHANGED <<last_processed_slot, epoch_length, duties, slot, requested,
                   monotone, highest>>
    /\ IF IsSigned(signed) THEN
           /\ block' = [block EXCEPT !.signature = signed]
           /\ pc' = "publish"
           /\ UNCHANGED outcome
       ELSE
           Return(Ok("SignerRejection", slot))

\* produce_block, after signing: publishes the signed block.
PublishBlock(result) ==
    /\ pc = "publish"
    /\ calls' = Append(calls, <<"publish_beacon_block", result.kind>>)
    /\ UNCHANGED <<last_processed_slot, epoch_length, duties, slot, requested,
                   monotone, highest>>
    /\ IF result.kind = "Err" THEN
           Return(FromBeaconNodeError(result.error))
       ELSE
           Return(Ok("BlockProduced", slot))

--------------------------------------------------------------------------
(* The duties manager thread, which writes the duties source.  A poisoned *)
(* lock stays poisoned.                                                    *)
DutiesManagerUpdate(d) ==
    /\ duties # "Poisoned"
    /\ duties' = d
    /\ d # duties
    /\ UNCHANGED <<last_processed_slot, epoch_length, pc, slot, block, outcome,
                   calls, requested, monotone, highest, harness>>

--------------------------------------------------------------------------
(* The producer with arbitrary collaborators. *)

NoHarness == [results |-> <<>>]

Init ==
    /\ New
    /\ epoch_length \in 0..MaxEpochLength
    /\ duties \in DutiesAnswers
    /\ harness = NoHarness

ReadClock == \E reading \in ClockReadings : PollReadClock(reading) /\ UNCHANGED harness
CheckDuties == PollDuties /\ UNCHANGED harness
Produce == \E result \in ProduceResults : ProduceBlock(result) /\ UNCHANGED harness
Sign == \E signed \in SignResults : SignBlock(signed) /\ UNCHANGED harness
Publish == \E result \in PublishResults : PublishBlock(result) /\ UNCHANGED harness
DutiesManager == \E d \in DutiesAnswers : DutiesManagerUpdate(d)

Next ==
    \/ ReadClock
    \/ CheckDuties
    \/ Produce
    \/ Sign
    \/ Publish
    \/ DutiesManager

Spec == Init /\ [][Next]_vars

--------------------------------------------------------------------------
(* The producer driven by tests::polling.  The test keeps an epoch map    *)
(* with one entry (the epoch of produce_slot, produce_slot), a beacon     *)
(* node that produces a block and accepts publish, and a signer that      *)
(* signs; it sets the clock and polls, five times.                        *)

\* TestEpochMap::is_block_production_slot(epoch, slot) over a map
\* epoch -> production slot.
TestEpochMapAnswer(map, epoch, s) ==
    IF epoch \in DOMAIN map
    THEN (IF map[epoch] = s THEN "True" ELSE "False")
    ELSE "UnknownEpoch"

\* The clock settings of the test, for produce_slot p and epoch length len.
PollingScript(p, len) ==
    <<p - 1, p, p, p + 1, (Epoch(p, len) + 1) * len>>

PollingInit ==
    /\ New
    /\ epoch_length \in 1..MaxEpochLength
    /\ \E p \in 1..(MaxSlot - 1), b \in BeaconBlock, sig \in Signatures \ {"empty"} :
          /\ Epoch(p - 1, epoch_length) = Epoch(p, epoch_length)
          /\ Epoch(p + 1, epoch_length) = Epoch(p, epoch_length)
          /\ harness = [produce_slot |-> p,
                        epoch_map |-> [e \in {Epoch(p, epoch_length)} |-> p],
                        slot_clock |-> 0,
                        script |-> PollingScript(p, epoch_length),
                        produce_result |-> [kind |-> "Some", block |-> b],
                        publish_result |-> [kind |-> "Ok", flag |-> TRUE],
                        signature |-> sig,
                        results |-> <<>>]
    /\ duties = TestEpochMapAnswer(harness.epoch_map, Epoch(0, epoch_length), 0)

\* The number of set_slot calls the test has made.
PollingStep == 5 - Len(harness.script)

\* slot_clock.write().unwrap().set_slot(..): the next clock setting of the test.
TestSetSlot ==
    /\ pc = "idle"
    /\ harness.script # <<>>
    /\ Len(harness.results) = PollingStep
    /\ harness' = [harness EXCEPT !.slot_clock = Head(harness.script),
                                  !.script = Tail(harness.script)]
    /\ duties' = TestEpochMapAnswer(harness.epoch_map,
                                    Epoch(Head(harness.script), epoch_length),
                                    Head(harness.script))
    /\ UNCHANGED <<last_processed_slot, epoch_length, pc, slot, block, outcome,
                   calls, requested, monotone, highest>>

\* The test takes the value poll returned.
TestObserve ==
    harness' = IF pc' = "idle"
               THEN [harness EXCEPT !.results = Append(@, outcome')]
               ELSE harness

TestReadClock ==
    /\ Len(harness.results) < PollingStep
    /\ PollReadClock([kind |-> "Some", slot |-> harness.slot_clock])
    /\ TestObserve
TestCheckDuties == PollDuties /\ TestObserve
TestProduce == ProduceBlock(harness.produce_result) /\ TestObserve
TestSign == SignBlock(harness.signature) /\ TestObserve
TestPublish == PublishBlock(harness.publish_result) /\ TestObserve

PollingNext ==
    \/ TestSetSlot
    \/ TestReadClock
    \/ TestCheckDuties
    \/ TestProduce
    \/ TestSign
    \/ TestPublish

SpecPolling == PollingInit /\ [][PollingNext]_vars

--------------------------------------------------------------------------
(* Observations on the history variables. *)

\* The current poll made call c and got answer a.
HasCall(c, a) == \E i \in 1..Len(calls) : calls[i] = <<c, a>>

\* The current poll made call c.
Called(c) == \E i \in 1..Len(calls) : calls[i][1] = c

\* The current poll read a slot from the clock (it is `slot`).
SlotRead == calls # <<>> /\ calls[1] = <<"slot_clock", "Some">>

\* The current poll called the beacon node; the signer.
BeaconNodeCalled == Called("produce_beacon_block") \/ Called("publish_beacon_block")
SignerCalled == Called("bls_sign")

\* The slots produce_beacon_block was requested for.
RequestedSlots == {requested[i] : i \in 1..Len(requested)}

\* This step is the first step of a poll, and the poll reads a slot from the
\* clock.  (Of the steps taken when no poll is in progress, only the duties
\* manager's changes `duties`.)
PollReadsSlot ==
    /\ pc = "idle"
    /\ duties' = duties
    /\ calls' # <<>>
    /\ calls'[1] = <<"slot_clock", "Some">>

\* What poll can return once production was judged required for slot s.
ProductionReturns(s) ==
    {Ok(t, s) : t \in {"BlockProduced", "BeaconNodeUnableToProduceBlock",
                       "SlashableBlockNotProduced", "SignerRejection"}}
    \cup {FromBeaconNodeError(e) : e \in BeaconNodeError}

--------------------------------------------------------------------------
(* Claims. *)

\* C1: publish_beacon_block is invoked only in a poll in which, in this order,
\* produce_beacon_block returned a candidate for the polled slot, the safety
\* predicate accepted it and the signer returned a signature.
C1_PublishOnlyProducedSafeSigned ==
    \A i \in 1..Len(calls) :
        calls[i][1] = "publish_beacon_block" =>
            /\ SlotRead
            /\ requested # <<>>
            /\ requested[Len(requested)] = slot
            /\ \E j, k, l \in 1..Len(calls) :
                  /\ j < k /\ k < l /\ l < i
                  /\ calls[j] = <<"produce_beacon_block", "Some">>
                  /\ calls[k] = <<"safe_to_produce", "true">>
                  /\ calls[l] = <<"bls_sign", "Some">>
            /\ \A j \in 1..Len(calls) :
                  /\ calls[j][1] = "produce_beacon_block" => calls[j][2] = "Some"
                  /\ calls[j][1] = "safe_to_produce" => calls[j][2] = "true"
                  /\ calls[j][1] = "bls_sign" => calls[j][2] = "Some"

\* C1 witness: a poll has published a block.
C1_Witness ==
    /\ pc = "idle"
    /\ Called("publish_beacon_block")
    /\ outcome = Ok("BlockProduced", slot)

\* C2: last_processed_slot is 0 at construction and never decreases; and when
\* no clock reading was below an earlier one, after every poll that read a slot
\* last_processed_slot is at most that slot.
C2_LastProcessedSlotMonotone ==
    /\ last_processed_slot = 0
    /\ [][last_processed_slot' >= last_processed_slot]_vars
    /\ [](pc = "idle" /\ SlotRead /\ monotone => last_processed_slot <= slot)

\* C2 witness: with non-decreasing readings, last_processed_slot was advanced
\* twice and a later poll has read a later slot.
C2_Witness ==
    /\ pc = "idle"
    /\ SlotRead
    /\ monotone
    /\ Len(requested) >= 2
    /\ last_processed_slot < slot

\* C3: the slots for which produce_beacon_block is requested are strictly
\* increasing, so it is requested at most once for a slot.
C3_RequestedStrictlyIncreasing ==
    \A i, j \in 1..Len(requested) : i < j => requested[i] < requested[j]

\* C3 witness: three blocks were requested although the clock went back.
C3_Witness ==
    /\ Len(requested) >= 3
    /\ ~monotone

\* C4: once the duties source answered true for the polled slot,
\* last_processed_slot is that slot before production is attempted and when
\* poll returns, whatever production yields; and a later poll at a slot for
\* which production was attempted returns SlotAlreadyProcessed and requests
\* no block.
C4_AdvancedBeforeProduction ==
    /\ [](HasCall("is_block_production_slot", "True") => last_processed_slot = slot)
    /\ [](pc = "produce" =>
            /\ HasCall("is_block_production_slot", "True")
            /\ ~Called("produce_beacon_block"))
    /\ [](pc = "idle" /\ HasCall("is_block_production_slot", "True") =>
            outcome \in ProductionReturns(slot))
    /\ [][PollReadsSlot /\ slot' \in RequestedSlots =>
            /\ pc' = "idle"
            /\ outcome' = Ok("SlotAlreadyProcessed", slot')
            /\ requested' = requested]_vars

\* C4 witness: production failed in the beacon node for a slot judged required,
\* and last_processed_slot is that slot.
C4_Witness ==
    /\ pc = "idle"
    /\ HasCall("is_block_production_slot", "True")
    /\ HasCall("produce_beacon_block", "Err")
    /\ last_processed_slot = slot
    /\ slot > 0

\* C5: with a nonzero epoch length, a poll that reads a slot not above
\* last_processed_slot returns SlotAlreadyProcessed(slot), leaves
\* last_processed_slot unchanged and calls neither the duties source, the
\* beacon node nor the signer.
C5_ProcessedSlotIsNoOp ==
    [][PollReadsSlot /\ epoch_length # 0 /\ slot' <= last_processed_slot =>
          /\ pc' = "idle"
          /\ outcome' = Ok("SlotAlreadyProcessed", slot')
          /\ last_processed_slot' = last_processed_slot
          /\ requested' = requested
          /\ Len(calls') = 1]_vars

\* C5 witness: a poll at the slot a block was produced for returned
\* SlotAlreadyProcessed.
C5_Witness ==
    /\ pc = "idle"
    /\ Len(calls) = 1
    /\ outcome = Ok("SlotAlreadyProcessed", slot)
    /\ slot = last_processed_slot
    /\ slot \in RequestedSlots

\* This step returns from a poll that read a slot, before any production, while
\* the duties source reports UnknownEpoch for the epoch of that slot.
ReturnsWhileEpochUnknown ==
    /\ pc \in {"idle", "duties"}
    /\ epoch_length # 0
    /\ duties = "UnknownEpoch"
    /\ duties' = duties
    /\ pc' = "idle"
    /\ calls' # <<>>
    /\ calls'[1] = <<"slot_clock", "Some">>

\* C6 as claimed: while the duties source reports UnknownEpoch for the epoch of
\* the polled slot, poll returns ProducerDutiesUnknown(slot), makes no
\* beacon-node call and does not advance last_processed_slot.
C6_Claimed ==
    [][ReturnsWhileEpochUnknown =>
          /\ outcome' = Ok("ProducerDutiesUnknown", slot')
          /\ ~BeaconNodeCalled'
          /\ last_processed_slot' = last_processed_slot]_vars

\* C6 as amended: while the duties source reports UnknownEpoch for the epoch of
\* the polled slot, poll returns ProducerDutiesUnknown(slot) when the slot is
\* above last_processed_slot and SlotAlreadyProcessed(slot) when it is not; in
\* both cases it makes no beacon-node call and does not advance
\* last_processed_slot.
C6_UnknownEpochGate ==
    [][ReturnsWhileEpochUnknown =>
          /\ outcome' = IF slot' > last_processed_slot
                        THEN Ok("ProducerDutiesUnknown", slot')
                        ELSE Ok("SlotAlreadyProcessed", slot')
          /\ ~BeaconNodeCalled'
          /\ last_processed_slot' = last_processed_slot]_vars

\* C6 witness: a poll at a new slot was answered UnknownEpoch and has returned.
C6_Witness ==
    /\ pc = "idle"
    /\ HasCall("is_block_production_slot", "UnknownEpoch")
    /\ outcome = Ok("ProducerDutiesUnknown", slot)
    /\ slot > last_processed_slot
    /\ last_processed_slot > 0

\* C8: when the signer declines, poll returns Ok(SignerRejection(slot)) and
\* publish_beacon_block is not invoked in that poll.
C8_SignerRejection ==
    HasCall("bls_sign", "None") =>
        /\ pc = "idle"
        /\ outcome = Ok("SignerRejection", slot)
        /\ ~Called("publish_beacon_block")
        /\ HasCall("safe_to_produce", "true")

\* C8 witness: the signer declined a candidate that passed the safety predicate.
C8_Witness ==
    /\ HasCall("safe_to_produce", "true")
    /\ HasCall("bls_sign", "None")

\* C9: when the duties source answers false for a new slot, poll returns
\* BlockProductionNotRequired(slot), leaves last_processed_slot unchanged and
\* calls neither the beacon node nor the signer; and last_processed_slot is 0
\* or a slot for which the duties source answered true.
C9_NotRequiredDoesNotAdvance ==
    /\ [][pc = "duties" /\ duties = "False" /\ duties' = duties =>
            /\ pc' = "idle"
            /\ outcome' = Ok("BlockProductionNotRequired", slot)
            /\ last_processed_slot' = last_processed_slot
            /\ requested' = requested
            /\ ~BeaconNodeCalled'
            /\ ~SignerCalled']_vars
    /\ [](HasCall("is_block_production_slot", "False") =>
            /\ pc = "idle"
            /\ ~BeaconNodeCalled
            /\ ~SignerCalled
            /\ last_processed_slot < slot)
    /\ [](\/ last_processed_slot = 0
          \/ last_processed_slot \in RequestedSlots
          \/ /\ pc = "produce"
             /\ HasCall("is_block_production_slot", "True")
             /\ last_processed_slot = slot)

\* C9 witness: after a block was produced, a poll at a later slot was answered
\* false and last_processed_slot stayed behind.
C9_Witness ==
    /\ pc = "idle"
    /\ HasCall("is_block_production_slot", "False")
    /\ outcome = Ok("BlockProductionNotRequired", slot)
    /\ 0 < last_processed_slot
    /\ last_processed_slot < slot

\* What tests::polling asserts for produce_slot p and epoch length len.
PollingExpected(p, len) ==
    <<Ok("BlockProductionNotRequired", p - 1),
      Ok("BlockProduced", p),
      Ok("SlotAlreadyProcessed", p),
      Ok("BlockProductionNotRequired", p + 1),
      Ok("ProducerDutiesUnknown", (Epoch(p, len) + 1) * len)>>

\* C10: from a fresh producer with duties known for the epoch of P, P the only
\* production slot, polls at P-1, P, P, P+1 and the first slot of the next epoch
\* return BlockProductionNotRequired(P-1), BlockProduced(P),
\* SlotAlreadyProcessed(P), BlockProductionNotRequired(P+1),
\* ProducerDutiesUnknown(first slot of the next epoch).
C10_PollingSequence ==
    \A i \in 1..Len(harness.results) :
        harness.results[i] = PollingExpected(harness.produce_slot, epoch_length)[i]

\* The error poll returns for a clock reading that gives no slot.
ClockError(kind) ==
    IF kind = "Poisoned" THEN Err("SlotClockPoisoned")
    ELSE IF kind = "ClockFault" THEN Err("SlotClockError")
    ELSE Err("SlotUnknowable")

\* The number of calls to c in the current poll.
CallCount(c) == Cardinality({i \in 1..Len(calls) : calls[i][1] = c})

\* C11: a poll whose clock reading gives no slot returns the error matching
\* the failure (poisoned lock, clock fault, slot unknown) after that one call:
\* the duties source, the beacon node and the signer are not called, and
\* last_processed_slot is unchanged.
C11_ClockFailure ==
    [][(/\ pc = "idle"
        /\ duties' = duties
        /\ calls' # <<>>
        /\ calls'[1][1] = "slot_clock"
        /\ calls'[1][2] \in {"Poisoned", "ClockFault", "None"})
       => /\ pc' = "idle"
          /\ outcome' = ClockError(calls'[1][2])
          /\ Len(calls') = 1
          /\ last_processed_slot' = last_processed_slot
          /\ requested' = requested]_vars

\* A poll after a production failed to resolve the slot.
C11_Witness ==
    /\ pc = "idle"
    /\ outcome = Err("SlotUnknowable")
    /\ calls = << <<"slot_clock", "None">> >>
    /\ last_processed_slot > 0

\* C12: a beacon node error in produce or publish is returned as
\* BeaconNodeError carrying that error; after a failed produce the poll ends
\* without calling the signer or publish; no poll calls produce or publish
\* more than once.
C12_BeaconNodeFailure ==
    /\ [][\A r \in ProduceResults :
            ProduceBlock(r) /\ r.kind = "Err" =>
                /\ pc' = "idle"
                /\ outcome' = [ok |-> FALSE, tag |-> "BeaconNodeError",
                               error |-> r.error]]_vars
    /\ [][\A r \in PublishResults :
            PublishBlock(r) /\ r.kind = "Err" =>
                /\ pc' = "idle"
                /\ outcome' = [ok |-> FALSE, tag |-> "BeaconNodeError",
                               error |-> r.error]]_vars
    /\ [](HasCall("produce_beacon_block", "Err") =>
            /\ pc = "idle"
            /\ ~SignerCalled
            /\ ~Called("publish_beacon_block"))
    /\ [](CallCount("produce_beacon_block") <= 1
          /\ CallCount("publish_beacon_block") <= 1)

\* A poll ended by a decode failure of publish.
C12_Witness ==
    /\ pc = "idle"
    /\ HasCall("publish_beacon_block", "Err")
    /\ outcome = [ok |-> FALSE, tag |-> "BeaconNodeError", error |-> "DecodeFailure"]

\* C13: when the duties source answers Poisoned for a new slot, the poll
\* returns Err(EpochMapPoisoned), never an Ok outcome, leaves
\* last_processed_slot alone and calls neither the beacon node nor the signer.
C13_EpochMapPoisoned ==
    /\ [][(pc = "duties" /\ duties = "Poisoned" /\ duties' = duties) =>
            /\ pc' = "idle"
            /\ outcome' = Err("EpochMapPoisoned")
            /\ last_processed_slot' = last_processed_slot
            /\ requested' = requested
            /\ ~BeaconNodeCalled'
            /\ ~SignerCalled']_vars
    /\ [](HasCall("is_block_production_slot", "Poisoned") =>
            /\ pc = "idle"
            /\ outcome = Err("EpochMapPoisoned")
            /\ slot > last_processed_slot)

\* A poll after a production found the duties source poisoned.
C13_Witness ==
    /\ pc = "idle"
    /\ outcome = Err("EpochMapPoisoned")
    /\ HasCall("is_block_production_slot", "Poisoned")
    /\ last_processed_slot > 0

\* C14: with epoch_length = 0 every poll that reads a slot returns
\* Err(EpochLengthIsZero), whatever the slot and last_processed_slot (also
\* when slot <= last_processed_slot), without consulting the duties source or
\* the beacon node and without changing last_processed_slot.
C14_EpochLengthIsZero ==
    [][(PollReadsSlot /\ epoch_length = 0) =>
          /\ pc' = "idle"
          /\ outcome' = Err("EpochLengthIsZero")
          /\ Len(calls') = 1
          /\ last_processed_slot' = last_processed_slot
          /\ requested' = requested]_vars

\* A poll of a slot that is not above last_processed_slot, epoch_length = 0.
C14_Witness ==
    /\ pc = "idle"
    /\ epoch_length = 0
    /\ SlotRead
    /\ slot <= last_processed_slot
    /\ outcome = Err("EpochLengthIsZero")

\* C15 (as claimed): poll returns BlockProduced(slot) only when publish
\* returned the success flag true, not false and not an error.
C15_Claimed ==
    [][\A r \in PublishResults :
          (PublishBlock(r) /\ outcome' = Ok("BlockProduced", slot)) =>
              (r.kind = "Ok" /\ r.flag)]_vars

\* The position of the first call to c in the current poll (0: not called).
CallIndex(c) ==
    IF Called(c) THEN CHOOSE i \in 1..Len(calls) :
                          /\ calls[i][1] = c
                          /\ \A j \in 1..(i - 1) : calls[j][1] # c
    ELSE 0

\* C16: store_produce is invoked only after the safety predicate accepted the
\* candidate, and before the signing root is computed and the signer is
\* asked; so the production is recorded also when the signer declines.
C16_StoreBeforeSign ==
    /\ Called("store_produce") =>
           /\ HasCall("safe_to_produce", "true")
           /\ CallIndex("safe_to_produce") < CallIndex("store_produce")
    /\ Called("proposal_root") =>
           /\ Called("store_produce")
           /\ CallIndex("store_produce") < CallIndex("proposal_root")
    /\ SignerCalled =>
           /\ Called("store_produce")
           /\ CallIndex("store_produce") < CallIndex("bls_sign")
    /\ CallCount("store_produce") <= 1

\* The signer declined and the production is recorded.
C16_Witness ==
    /\ pc = "idle"
    /\ outcome = Ok("SignerRejection", slot)
    /\ HasCall("bls_sign", "None")
    /\ Called("store_produce")

\* The last poll at the current slot returned that the duties are unknown or
\* that no production is required.
NotProducedAt(s) ==
    outcome \in {Ok("ProducerDutiesUnknown", s), Ok("BlockProductionNotRequired", s)}

\* C17 (as claimed): once the clock has read a later slot, no poll requests a
\* block for an earlier slot.
C17_Claimed ==
    [][requested' # requested =>
          requested'[Len(requested')] >= highest]_vars

\* C17: after ProducerDutiesUnknown(s) or BlockProductionNotRequired(s) the
\* next poll that reads s consults the duties source again and, if s is now a
\* production slot, attempts production for s; produce_beacon_block is only
\* ever called with the slot read in that same poll, so once the clock reads
\* a later slot no poll requests a block for s unless the clock reads s again
\* (never, when the readings do not decrease).
C17_SameSlotOnly ==
    /\ [][(PollReadsSlot /\ NotProducedAt(slot) /\ slot' = slot) =>
            pc' = "duties"]_vars
    /\ [][(pc = "duties" /\ duties = "True" /\ duties' = duties) =>
            /\ pc' = "produce"
            /\ last_processed_slot' = slot]_vars
    /\ [][requested' # requested =>
            /\ pc = "produce"
            /\ SlotRead
            /\ slot' = slot
            /\ requested' = Append(requested, slot)]_vars
    /\ [][(requested' # requested /\ monotone) =>
            requested'[Len(requested')] >= highest]_vars

\* A second poll at a slot whose duties were unknown attempts production.
C17_Witness ==
    /\ pc = "produce"
    /\ outcome = Ok("ProducerDutiesUnknown", slot)

\* C18: signing changes only the signature field: the block handed to
\* publish is the candidate the beacon node returned with its signature
\* replaced by the signer's value; the empty signature is never on it.
C18_OnlySignatureChanges ==
    /\ [][\A r \in ProduceResults :
            (ProduceBlock(r) /\ pc' = "sign") => block' = r.block]_vars
    /\ [][\A sig \in SignResults :
            (SignBlock(sig) /\ pc' = "publish") =>
                /\ DOMAIN block' = DOMAIN block
                /\ \A f \in DOMAIN block \ {"signature"} : block'[f] = block[f]
                /\ block'.signature = sig]_vars
    /\ [](pc = "publish" => block.signature \in Signatures \ {"empty"})

\* A candidate for another slot than the polled one is signed.
C18_Witness ==
    /\ pc = "publish"
    /\ block.signature = "sigB"
    /\ block.slot # slot

\* C19 (as claimed): the root handed to the signer is determined by the
\* candidate's slot, the shard and the root of the signature-less copy, does
\* not depend on the incoming signature, and varies with the slot.
C19_Claimed ==
    (pc = "publish" /\ Called("proposal_root")) =>
        /\ calls[CallIndex("proposal_root")][2] = proposal_root(block)
        /\ \A sig \in Signatures :
               proposal_root([block EXCEPT !.signature = sig]) = proposal_root(block)
        /\ \A b \in BeaconBlock :
               b.slot # block.slot => proposal_root(b) # proposal_root(block)

\* C20 (as claimed): SlotAlreadyProcessed(s) is returned only when an earlier
\* poll judged production required and attempted it at some slot >= s.
C20_Claimed ==
    (pc = "idle" /\ outcome.ok /\ outcome.tag = "SlotAlreadyProcessed") =>
        \E r \in RequestedSlots : r >= outcome.slot

====
